---- MODULE Spec2Model ----
(***************************************************************************)
(* A model of src/agent.py: the Rainbow-style categorical DQN agent.       *)
(*                                                                         *)
(* Real numbers are exact rationals <<num, den>> with den > 0, kept in     *)
(* lowest terms, so that the projection of learn (lines 92-108) is         *)
(* computed as the code computes it, in exact arithmetic.                  *)
(***************************************************************************)
EXTENDS Integers, Sequences, FiniteSets, TLC

VARIABLES cfg, onlineParams, targetParams, onlineNoise, targetNoise, training,
          optSteps, syncedParams, lastCall, batch, file, ctor

vars == <<cfg, onlineParams, targetParams, onlineNoise, targetNoise, training,
          optSteps, syncedParams, lastCall, batch, file, ctor>>

(***************************************************************************)
(* Bounds of the model.                                                    *)
(***************************************************************************)
MaxAtoms == 5
MaxReturn == 3
MassUnits == 3
MaxParam == 1
MaxNoise == 1
MaxState == 1
MemSize == 2
MaxOptSteps == 1

\* sizes the constructor copies from args (lines 20, 21, 24): the batch size,
\* the number n of steps of the returns, and the number of actions
batch_size == 2
multi_step == 2
action_space == 2

None == "None"

(***************************************************************************)
(* Exact rational arithmetic.                                              *)
(***************************************************************************)
Abs(x) == IF x < 0 THEN -x ELSE x

RECURSIVE Gcd(_, _)
Gcd(a, b) == IF b = 0 THEN a ELSE Gcd(b, a % b)

Norm(r) ==
  LET g == Gcd(Abs(r[1]), r[2])
  IN  <<r[1] \div g, r[2] \div g>>

Rat(n) == <<n, 1>>
RAdd(x, y) == Norm(<<x[1] * y[2] + y[1] * x[2], x[2] * y[2]>>)
RSub(x, y) == Norm(<<x[1] * y[2] - y[1] * x[2], x[2] * y[2]>>)
RMul(x, y) == Norm(<<x[1] * y[1], x[2] * y[2]>>)
RDiv(x, y) ==
  IF y[1] > 0 THEN Norm(<<x[1] * y[2], x[2] * y[1]>>)
              ELSE Norm(<<-(x[1] * y[2]), x[2] * (-y[1])>>)
RLe(x, y) == x[1] * y[2] <= y[1] * x[2]
RLt(x, y) == x[1] * y[2] < y[1] * x[2]

RECURSIVE RPow(_, _)
RPow(x, k) == IF k = 0 THEN Rat(1) ELSE RMul(x, RPow(x, k - 1))

\* Tensor.floor() and Tensor.ceil() followed by .to(torch.int64)
Floor(x) == x[1] \div x[2]
Ceil(x) == -((-x[1]) \div x[2])

\* the function f with its values computed once
Eager(f) == f @@ [x \in {} |-> x]

RECURSIVE RSum(_, _)
\* sum of f[0] .. f[k-1]
RSum(f, k) == IF k = 0 THEN Rat(0) ELSE RAdd(RSum(f, k - 1), f[k - 1])

(***************************************************************************)
(* Support grid (lines 15-19).                                             *)
(***************************************************************************)
\* <<V_min, V_max>> and the discount, a rational <<num, den>>
ValueRanges == {<<-1, 1>>, <<-2, 2>>, <<0, 3>>}
Discounts == {<<1, 2>>, <<9, 10>>, <<1, 1>>}
Hyperparameters == {<<v[1], v[2], d>> : v \in ValueRanges, d \in Discounts}

Configs ==
  {[atoms |-> a, V_min |-> h[1], V_max |-> h[2], discount |-> h[3], n |-> multi_step] :
     a \in 2..MaxAtoms, h \in Hyperparameters}

AtomIdx(c) == 0..(c.atoms - 1)
BatchIdx == 0..(batch_size - 1)

\* self.delta_z = (args.V_max - args.V_min) / (self.atoms - 1)
delta_z(c) == RDiv(Rat(c.V_max - c.V_min), Rat(c.atoms - 1))

\* torch.linspace(args.V_min, args.V_max, self.atoms)
support(c) ==
  [i \in AtomIdx(c) |->
     RAdd(Rat(c.V_min), RDiv(Rat(i * (c.V_max - c.V_min)), Rat(c.atoms - 1)))]

(***************************************************************************)
(* The projection of learn (lines 92-108).                                 *)
(***************************************************************************)
\* Tz = returns.unsqueeze(1) + nonterminals * (discount ** n) * support.unsqueeze(0),
\* entry [b, i] for returns[b] = ret and nonterminals[b] = nt
BellmanTz(c, ret, nt, i) ==
  RAdd(Rat(ret), RMul(RMul(Rat(nt), RPow(c.discount, c.n)), support(c)[i]))

ClampNoMax(c, x) == IF RLt(x, Rat(c.V_min)) THEN Rat(c.V_min) ELSE x

\* Tz.clamp(min=self.V_min, max=self.V_max)
Clamp(c, x) ==
  IF RLt(x, Rat(c.V_min)) THEN Rat(c.V_min)
  ELSE IF RLt(Rat(c.V_max), x) THEN Rat(c.V_max)
  ELSE x

\* b = (Tz - V_min) / delta_z
Coord(c, tz) == RDiv(RSub(tz, Rat(c.V_min)), delta_z(c))

FixLowerMissing(c, l, u) == l

FixLowerAlways(c, l, u) == IF l = u THEN l - 1 ELSE l

\* l[(u > 0) * (l == u)] -= 1
FixLower(c, l, u) == IF u > 0 /\ l = u THEN l - 1 ELSE l

FixUpperStale(c, l0, l, u) == IF l0 < c.atoms - 1 /\ l0 = u THEN u + 1 ELSE u

\* u[(l < (self.atoms - 1)) * (l == u)] += 1, l being the l that line 98 left;
\* l0 is the l before line 98, which the statement does not read
FixUpper(c, l0, l, u) == IF l < c.atoms - 1 /\ l = u THEN u + 1 ELSE u

\* offset = linspace(0, (batch_size - 1) * atoms, batch_size), row b's start
offset(c) == [b \in BatchIdx |-> b * c.atoms]

RECURSIVE IndexAdd(_, _, _, _, _)
\* m.view(-1).index_add_(0, index.view(-1), source.view(-1)): the first k
\* (row-major) entries of index and source accumulated into the flat m
IndexAdd(c, m, index, source, k) ==
  IF k = 0 THEN m
  ELSE LET b == (k - 1) \div c.atoms
           i == (k - 1) % c.atoms
       IN  [IndexAdd(c, m, index, source, k - 1) EXCEPT
              ![index[b][i]] = RAdd(@, source[b][i])]

WeightLowerSwapped(c, l, u, bc) == RSub(Rat(l), bc)

\* (u.float() - b) and (b - l.float())
WeightLower(c, l, u, bc) == RSub(Rat(u), bc)
WeightUpper(c, l, u, bc) == RSub(bc, Rat(l))

\* Lines 92-99 and the index and source tensors of lines 105-108, entry [b, i]
\* for returns[b] = ret, nonterminals[b] = nt and pns_a[b, i] = p
Entry(c, ret, nt, p, b, i) ==
  LET Tz == BellmanTz(c, ret, nt, i)
      bc == Coord(c, Clamp(c, Tz))
      l0 == Floor(bc)
      u0 == Ceil(bc)
      l == FixLower(c, l0, u0)
      u == FixUpper(c, l0, l, u0)
      wl == WeightLower(c, l, u, bc)
      wu == WeightUpper(c, l, u, bc)
  IN  [Tz |-> Tz, b |-> bc, l |-> l, u |-> u,
       dl |-> l + offset(c)[b], du |-> u + offset(c)[b],
       wl |-> wl, wu |-> wu,
       sl |-> RMul(Rat(p), wl), su |-> RMul(Rat(p), wu)]

\* one field of the entries, as a [batch_size, atoms] tensor
Tensor(c, e, field) ==
  Eager([b \in BatchIdx |-> Eager([i \in AtomIdx(c) |-> e[b][i][field]])])

\* m.view(-1) seen as [batch_size, atoms] again
Unflatten(c, m) ==
  Eager([b \in BatchIdx |-> Eager([i \in AtomIdx(c) |-> m[b * c.atoms + i]])])

\* m = states.new_zeros(batch_size, atoms) and the two index_add_ of lines
\* 105-108; fault is TRUE when a destination lies outside m.view(-1), where
\* index_add_ raises and no target is produced
Distribute(c, e, dl, du, flat) ==
  LET fault == \E b \in BatchIdx, i \in AtomIdx(c) :
                 dl[b][i] \notin flat \/ du[b][i] \notin flat
      zeros == [k \in flat |-> Rat(0)]
      n == batch_size * c.atoms
  IN  [Tz |-> Tensor(c, e, "Tz"), b |-> Tensor(c, e, "b"), l |-> Tensor(c, e, "l"),
       u |-> Tensor(c, e, "u"), wl |-> Tensor(c, e, "wl"), wu |-> Tensor(c, e, "wu"),
       dl |-> dl, du |-> du, fault |-> fault,
       m |-> IF fault THEN Unflatten(c, zeros)
             ELSE Unflatten(c, IndexAdd(c, IndexAdd(c, zeros, dl, Tensor(c, e, "sl"), n),
                                        du, Tensor(c, e, "su"), n))]

\* Lines 92-108 for one batch: every intermediate tensor and the target m
Projection(c, returns, nonterminals, pns_a) ==
  LET e == Eager([b \in BatchIdx |-> Eager([i \in AtomIdx(c) |->
                    Entry(c, returns[b], nonterminals[b], pns_a[b][i], b, i)])])
  IN  Distribute(c, e, Tensor(c, e, "dl"), Tensor(c, e, "du"),
                 0..(batch_size * c.atoms - 1))

(***************************************************************************)
(* Inputs of the projection: integer returns, nonterminal flags in {0,1},  *)
(* and rows of non-negative mass in units (a simplex row carries           *)
(* MassUnits units; the units cancel in every claim).  A batch holds a row *)
(* at the even places and its mirror image at the odd ones, so that every  *)
(* row is projected at every place of the batch.                           *)
(***************************************************************************)
Returns == (-MaxReturn)..MaxReturn

RECURSIVE Total(_, _)
Total(f, k) == IF k = 0 THEN 0 ELSE Total(f, k - 1) + f[k - 1]

Rows(c) == {r \in [AtomIdx(c) -> 0..MassUnits] : Total(r, c.atoms) = MassUnits}

Batches(c) ==
  {[returns |-> [b \in BatchIdx |-> IF b % 2 = 0 THEN r ELSE -r],
    nonterminals |-> [b \in BatchIdx |-> IF b % 2 = 0 THEN nt ELSE 1 - nt],
    pns_a |-> [b \in BatchIdx |-> IF b % 2 = 0 THEN p
                                  ELSE [i \in AtomIdx(c) |-> p[c.atoms - 1 - i]]]] :
     r \in Returns, nt \in {0, 1}, p \in Rows(c)}

(***************************************************************************)
(* The collaborators of the agent.  components.DQN and the replay memory   *)
(* are not part of src/; they are modelled from the interfaces the agent   *)
(* uses: a forward pass that is a function of the parameters, the held     *)
(* noise sample (train mode only) and the state, and a memory whose sample *)
(* call picks batch_size stored transitions.                               *)
(***************************************************************************)
Params == 0..MaxParam
Noise == 0..MaxNoise
States == 0..MaxState
Idx == 0..(MemSize - 1)
Actions == 0..(action_space - 1)

\* DQN.forward: per action a categorical distribution over the atoms, in
\* mass units; a noisy layer applies its noise sample in train mode only
Forward(c, params, noise, train, s) ==
  LET eff == IF train THEN noise ELSE 0
  IN  [a \in Actions |-> [i \in AtomIdx(c) |->
         (IF i = (params + s + a) % c.atoms THEN MassUnits - 1 ELSE 0)
         + (IF i = (eff + a * (s + 1) + 2 * params) % c.atoms THEN 1 ELSE 0)]]

\* DQN.forward(x, log=True): the logarithms of the same probabilities
LogForward(c, params, noise, train, s) ==
  [a \in Actions |-> [log_of |-> Eager(Forward(c, params, noise, train, s)[a])]]

\* the transition the memory holds at index i
Transition(i) ==
  [state |-> i % (MaxState + 1), action |-> i % action_space, returns |-> i - 1,
   next_state |-> (i + 1) % (MaxState + 1), nonterminal |-> IF i = 0 THEN 0 ELSE 1,
   weight |-> 1]

\* the index tuples a sample call can draw: batch_size consecutive slots of
\* the memory, from any slot on
Draws == {[b \in BatchIdx |-> (start + b) % MemSize] : start \in Idx}

\* mem.sample(batch_size) when the memory draws the indices idxs
Sample(idxs) ==
  [idxs |-> idxs,
   states |-> Eager([b \in BatchIdx |-> Transition(idxs[b]).state]),
   actions |-> Eager([b \in BatchIdx |-> Transition(idxs[b]).action]),
   returns |-> Eager([b \in BatchIdx |-> Transition(idxs[b]).returns]),
   next_states |-> Eager([b \in BatchIdx |-> Transition(idxs[b]).next_state]),
   nonterminals |-> Eager([b \in BatchIdx |-> Transition(idxs[b]).nonterminal]),
   weights |-> Eager([b \in BatchIdx |-> Transition(idxs[b]).weight])]

(***************************************************************************)
(* Expected values and greedy selection (lines 65, 82-84, 129).            *)
(***************************************************************************)
RECURSIVE Dot(_, _, _)
\* sum over the first k atoms of support[i] * p[i]
Dot(c, p, k) ==
  IF k = 0 THEN Rat(0)
  ELSE RAdd(Dot(c, p, k - 1), RMul(support(c)[k - 1], Rat(p[k - 1])))

\* (net(x) * self.support).sum(2) for one state: the value of every action
ExpectedValues(c, p) ==
  LET dist == Eager(p)
  IN  Eager([a \in Actions |-> RDiv(Dot(c, Eager(dist[a]), c.atoms), Rat(MassUnits))])

\* .argmax(1): the first index of a maximal value
Argmax(q) ==
  LET v == Eager(q)
  IN  CHOOSE a \in Actions :
        /\ \A a2 \in Actions : RLe(v[a2], v[a])
        /\ \A a2 \in Actions : a2 < a => RLt(v[a2], v[a])

\* .max(1)[0]: the maximal value
Max(q) ==
  LET v == Eager(q)
  IN  CHOOSE x \in {v[a] : a \in Actions} : \A a \in Actions : RLe(v[a], x)

(***************************************************************************)
(* State shared by the specifications.                                     *)
(*   cfg            the hyperparameters and support grid of the agent      *)
(*   onlineParams   trainable parameters of online_net                     *)
(*   targetParams   trainable parameters of target_net                     *)
(*   onlineNoise    noise sample held by online_net's noisy layers         *)
(*   targetNoise    noise sample held by target_net's noisy layers         *)
(*   training       online_net's mode (train() / eval())                   *)
(*   optSteps       the optimiser's step count (its internal state)        *)
(*   syncedParams   history: onlineParams at the latest update_target_net  *)
(*   lastCall       the latest call on the agent, its locals and result    *)
(*   batch          the tensors handed to the projection                   *)
(*   file, ctor     the checkpoint given to __init__ and how __init__ ended*)
(***************************************************************************)
NoCall == [op |-> "none"]

Unbuilt == [status |-> "pending", handed |-> None]

(***************************************************************************)
(* SpecProj: the projection applied to every bounded batch.                *)
(***************************************************************************)
InitProj ==
  /\ cfg \in Configs
  /\ batch \in Batches(cfg)
  /\ lastCall = NoCall
  /\ onlineParams = 0 /\ targetParams = 0 /\ syncedParams = 0
  /\ onlineNoise = 0 /\ targetNoise = 0
  /\ training = TRUE /\ optSteps = 0
  /\ file = None /\ ctor = Unbuilt

Project ==
  /\ lastCall = NoCall
  /\ lastCall' = [op |-> "project",
                  out |-> Projection(cfg, batch.returns, batch.nonterminals, batch.pns_a)]
  /\ UNCHANGED <<cfg, batch, onlineParams, targetParams, syncedParams, onlineNoise,
                 targetNoise, training, optSteps, file, ctor>>

NextProj == Project

SpecProj == InitProj /\ [][NextProj]_vars

Projected == lastCall.op = "project"

\* the mass of row b of pns_a, and of row b of m
RowMass(b) == Rat(Total(batch.pns_a[b], cfg.atoms))
TargetMass(b) == RSum(lastCall.out.m[b], cfg.atoms)

\* C1: mass conservation: every projected row sums to exactly the sum of its
\* pns_a row, for every simplex row, return and nonterminal flag.
MassConserved ==
  Projected =>
    /\ ~lastCall.out.fault
    /\ \A b \in BatchIdx : TargetMass(b) = RowMass(b)

\* a row whose sources do not all land on one atom has been projected
MassConservedWitness ==
  /\ Projected
  /\ \E b \in BatchIdx :
       /\ batch.nonterminals[b] = 1
       /\ \E i \in AtomIdx(cfg) : lastCall.out.b[b][i][2] > 1 /\ batch.pns_a[b][i] > 0
       /\ \E i, j \in AtomIdx(cfg) :
            i # j /\ lastCall.out.m[b][i][1] > 0 /\ lastCall.out.m[b][j][1] > 0

\* C4: non-negativity: every entry of m, and both weights, are >= 0.
NonNegative ==
  Projected =>
    \A b \in BatchIdx, i \in AtomIdx(cfg) :
      /\ lastCall.out.m[b][i][1] >= 0
      /\ lastCall.out.wl[b][i][1] >= 0
      /\ lastCall.out.wu[b][i][1] >= 0

NonNegativeWitness ==
  /\ Projected
  /\ \E b \in BatchIdx, i \in AtomIdx(cfg) :
       /\ batch.pns_a[b][i] > 0
       /\ lastCall.out.wl[b][i][1] > 0 /\ lastCall.out.wu[b][i][1] > 0

\* every unclamped Tz of row b is at or above V_max
AllAbove(b) == \A i \in AtomIdx(cfg) : RLe(Rat(cfg.V_max), lastCall.out.Tz[b][i])

\* C3: boundary clamping: a row whose every Bellman-shifted value is >= V_max
\* has all of its mass on the last atom and none on any other.
ClampedToLast ==
  Projected =>
    \A b \in BatchIdx :
      AllAbove(b) =>
        \A i \in AtomIdx(cfg) :
          lastCall.out.m[b][i] = IF i = cfg.atoms - 1 THEN RowMass(b) ELSE Rat(0)

ClampedToLastWitness ==
  /\ Projected
  /\ \E b \in BatchIdx :
       /\ AllAbove(b)
       /\ batch.nonterminals[b] = 1
       /\ \E i \in AtomIdx(cfg) : RLt(Rat(cfg.V_max), lastCall.out.Tz[b][i])
       /\ batch.pns_a[b][0] > 0

\* C10: after the two fix statements the neighbour indices are adjacent and
\* in range, and both index_add_ destinations lie in the row's own slice.
NeighboursAdjacent ==
  Projected =>
    \A b \in BatchIdx, i \in AtomIdx(cfg) :
      /\ 0 <= lastCall.out.l[b][i]
      /\ lastCall.out.u[b][i] = lastCall.out.l[b][i] + 1
      /\ lastCall.out.u[b][i] <= cfg.atoms - 1
      /\ lastCall.out.dl[b][i] \in (b * cfg.atoms)..((b + 1) * cfg.atoms - 1)
      /\ lastCall.out.du[b][i] \in (b * cfg.atoms)..((b + 1) * cfg.atoms - 1)

\* both grid extremes and an interior grid point occur as coordinates
NeighboursAdjacentWitness ==
  /\ Projected
  /\ \E i \in AtomIdx(cfg) : lastCall.out.b[0][i] = Rat(0)
  /\ \E i \in AtomIdx(cfg) : lastCall.out.b[1][i] = Rat(cfg.atoms - 1)
  /\ \E i \in AtomIdx(cfg) : lastCall.out.b[1][i] = Rat(1) /\ cfg.atoms > 2

\* source (b, i) lands exactly on the interior atom k
OnInteriorAtom(b, i, k) ==
  /\ 0 < k /\ k < cfg.atoms - 1
  /\ lastCall.out.b[b][i] = Rat(k)

\* the row of the end-to-end example: atoms = 3, V_min = -1, V_max = 1,
\* returns = 0, nonterminal = 0, pns_a = [0, 1, 0]
ExampleRow(b) ==
  /\ cfg.atoms = 3 /\ cfg.V_min = -1 /\ cfg.V_max = 1
  /\ batch.returns[b] = 0 /\ batch.nonterminals[b] = 0
  /\ batch.pns_a[b] = [i \in AtomIdx(cfg) |-> IF i = 1 THEN MassUnits ELSE 0]

Frame ==
  [online |-> onlineParams, onlineNoise |-> onlineNoise, target |-> targetParams,
   targetNoise |-> targetNoise, training |-> training, opt |-> optSteps,
   grad |-> "stale", events |-> <<>>, raised |-> FALSE,
   sample |-> None, log_ps_a |-> None, dns_sum |-> None, argmax_indices_ns |-> None,
   pns |-> None, pns_a |-> None,
   proj |-> None, loss |-> None, stepped_with |-> None, priorities |-> <<>>]

\* idxs, states, ..., weights = mem.sample(self.batch_size)
DoSample(e, idxs) ==
  [e EXCEPT !.sample = Sample(idxs), !.events = Append(@, "sample")]

\* log_ps = self.online_net(states, log=True); log_ps_a = log_ps[range, actions]
OnlineForwardCurrent(e) ==
  [e EXCEPT
     !.log_ps_a = Eager([b \in BatchIdx |->
        LogForward(cfg, e.online, e.onlineNoise, e.training,
                   e.sample.states[b])[e.sample.actions[b]]]),
     !.events = Append(@, "online_forward")]

\* dns.sum(2) of the given next-state probabilities, and its .argmax(1)
Selection(e, pns) ==
  LET dns_sum == Eager([b \in BatchIdx |-> ExpectedValues(cfg, pns[b])])
  IN  [e EXCEPT
         !.dns_sum = dns_sum,
         !.argmax_indices_ns = Eager([b \in BatchIdx |-> Argmax(dns_sum[b])]),
         !.events = Append(@, "online_forward_next")]

SelectWithTarget(e) ==
  Selection(e, [b \in BatchIdx |->
    Forward(cfg, e.target, e.targetNoise, TRUE, e.sample.next_states[b])])

\* pns = self.online_net(next_states); dns = support * pns;
\* argmax_indices_ns = dns.sum(2).argmax(1)
SelectAction(e) ==
  Selection(e, [b \in BatchIdx |->
    Forward(cfg, e.online, e.onlineNoise, e.training, e.sample.next_states[b])])

TargetResetNoiseOnOnline(e, noise) ==
  [e EXCEPT !.onlineNoise = noise, !.events = Append(@, "target_reset_noise")]

\* self.target_net.reset_noise(), the fresh sample being noise
TargetResetNoise(e, noise) ==
  [e EXCEPT !.targetNoise = noise, !.events = Append(@, "target_reset_noise")]

\* pns = self.target_net(next_states); pns_a = pns[range, argmax_indices_ns];
\* target_net is left in train mode by the constructor
TargetForward(e) ==
  LET pns == Eager([b \in BatchIdx |-> Eager([a \in Actions |->
               Eager(Forward(cfg, e.target, e.targetNoise, TRUE,
                             e.sample.next_states[b])[a])])])
  IN  [e EXCEPT
         !.pns = pns,
         !.pns_a = Eager([b \in BatchIdx |-> pns[b][e.argmax_indices_ns[b]]]),
         !.events = Append(@, "target_forward")]

\* lines 92-108; an index fault raises out of learn
Distribution(e) ==
  LET out == Projection(cfg, e.sample.returns, e.sample.nonterminals, e.pns_a)
  IN  [e EXCEPT !.proj = out, !.raised = out.fault, !.events = Append(@, "project")]

\* loss = -torch.sum(m * log_ps_a, 1), kept as its two operands per sample
Loss(e) ==
  [e EXCEPT
     !.loss = Eager([b \in BatchIdx |-> [m |-> e.proj.m[b], log_ps_a |-> e.log_ps_a[b]]]),
     !.events = Append(@, "loss")]

\* self.online_net.zero_grad()
ZeroGrad(e) == [e EXCEPT !.grad = "zero", !.events = Append(@, "zero_grad")]

\* (weights * loss).mean().backward()
Backward(e) == [e EXCEPT !.grad = "raw", !.events = Append(@, "backward")]

\* clip_grad_norm_(self.online_net.parameters(), self.norm_clip)
ClipGradNorm(e) ==
  [e EXCEPT !.grad = IF @ = "raw" THEN "clipped" ELSE @,
            !.events = Append(@, "clip_grad_norm")]

OptimiserStepBoth(e, params) ==
  [e EXCEPT !.online = params, !.target = params, !.opt = @ + 1,
            !.stepped_with = e.grad, !.events = Append(@, "optimiser_step")]

\* self.optimiser.step(): the optimiser holds online_net.parameters() only;
\* params is where the update moves them
OptimiserStep(e, params) ==
  [e EXCEPT !.online = params, !.opt = @ + 1, !.stepped_with = e.grad,
            !.events = Append(@, "optimiser_step")]

\* mem.update_priorities(idxs, loss.detach().cpu().numpy())
UpdatePriorities(e) ==
  [e EXCEPT !.priorities = Append(@, [idxs |-> e.sample.idxs, loss |-> e.loss]),
            !.events = Append(@, "update_priorities")]

(***************************************************************************)
(* Spec: the agent after construction, under any sequence of calls.        *)
(***************************************************************************)
AgentConfigs ==
  {c \in Configs : c.atoms = 3 /\ c.V_min = -1 /\ c.V_max = 1 /\ c.discount = <<1, 2>>}

\* the state that lines 26-56 leave: target_net is a copy of online_net
\* (line 47), online_net is in train mode (line 45), the optimiser is fresh
Init ==
  /\ cfg \in AgentConfigs
  /\ onlineParams \in Params
  /\ targetParams = onlineParams
  /\ syncedParams = onlineParams
  /\ onlineNoise \in Noise
  /\ targetNoise \in Noise
  /\ training = TRUE
  /\ optSteps = 0
  /\ lastCall = NoCall
  /\ batch = None /\ file = None
  /\ ctor = [status |-> "ok", handed |-> None]

Fixed == <<cfg, batch, file, ctor>>

\* learn(mem), lines 73-116 statement by statement: the memory draws idxs,
\* reset_noise draws noise, and the optimiser's step moves the parameters to
\* params; an exception of the projection ends the call at line 108.  The
\* optimiser's step count is capped by MaxOptSteps.
Learn ==
  /\ optSteps < MaxOptSteps
  /\ \E idxs \in Draws, noise \in Noise :
       \E e1 \in {DoSample(Frame, idxs)} :
       \E e2 \in {OnlineForwardCurrent(e1)} :
       \E e3 \in {SelectAction(e2)} :
       \E e4 \in {TargetResetNoise(e3, noise)} :
       \E e5 \in {TargetForward(e4)} :
       \E e6 \in {Distribution(e5)} :
       \E e7 \in {Loss(e6)} :
       \E e8 \in {ZeroGrad(e7)} :
       \E e9 \in {Backward(e8)} :
       \E e10 \in {ClipGradNorm(e9)} :
       \E params \in Params :
       \E e11 \in {OptimiserStep(e10, params)} :
       \E e \in {IF e6.raised THEN e6 ELSE UpdatePriorities(e11)} :
         /\ onlineParams' = e.online
         /\ targetParams' = e.target
         /\ onlineNoise' = e.onlineNoise
         /\ targetNoise' = e.targetNoise
         /\ training' = e.training
         /\ optSteps' = e.opt
         /\ lastCall' = [op |-> "learn", e |-> e]
  /\ UNCHANGED <<syncedParams, Fixed>>

\* act(state): line 65
ActResult(s) ==
  Argmax(ExpectedValues(cfg, Forward(cfg, onlineParams, onlineNoise, training, s)))

\* evaluate_q(state): line 129
EvaluateQResult(s) ==
  Max(ExpectedValues(cfg, Forward(cfg, onlineParams, onlineNoise, training, s)))

ActResampling ==
  /\ \E s \in States, noise \in Noise :
       /\ lastCall' = [op |-> "act", state |-> s, result |-> ActResult(s)]
       /\ onlineNoise' = noise
  /\ UNCHANGED <<onlineParams, targetParams, targetNoise, training, optSteps,
                 syncedParams, Fixed>>

Act ==
  /\ \E s \in States :
       lastCall' = [op |-> "act", state |-> s, result |-> ActResult(s)]
  /\ UNCHANGED <<onlineParams, targetParams, onlineNoise, targetNoise, training,
                 optSteps, syncedParams, Fixed>>

\* act_e_greedy(state, epsilon): a random action when the draw falls below
\* epsilon, act(state) otherwise
ActEGreedy ==
  /\ \E s \in States, explore \in BOOLEAN, a \in Actions :
       lastCall' = [op |-> "act_e_greedy", state |-> s,
                    result |-> IF explore THEN a ELSE ActResult(s)]
  /\ UNCHANGED <<onlineParams, targetParams, onlineNoise, targetNoise, training,
                 optSteps, syncedParams, Fixed>>

EvaluateQ ==
  /\ \E s \in States :
       lastCall' = [op |-> "evaluate_q", state |-> s, result |-> EvaluateQResult(s)]
  /\ UNCHANGED <<onlineParams, targetParams, onlineNoise, targetNoise, training,
                 optSteps, syncedParams, Fixed>>

\* reset_noise(): online net only
ResetNoise ==
  /\ \E noise \in Noise : onlineNoise' = noise
  /\ lastCall' = [op |-> "reset_noise"]
  /\ UNCHANGED <<onlineParams, targetParams, targetNoise, training, optSteps,
                 syncedParams, Fixed>>

\* update_target_net(): target_net.load_state_dict(online_net.state_dict());
\* the noise sample is copied too when the state dict carries it as a buffer
UpdateTargetNet ==
  /\ targetParams' = onlineParams
  /\ syncedParams' = onlineParams
  /\ \E noise \in {targetNoise, onlineNoise} : targetNoise' = noise
  /\ lastCall' = [op |-> "update_target_net"]
  /\ UNCHANGED <<onlineParams, onlineNoise, training, optSteps, Fixed>>

\* train() and eval(): the mode of online_net only
Train ==
  /\ training' = TRUE
  /\ lastCall' = [op |-> "train"]
  /\ UNCHANGED <<onlineParams, targetParams, onlineNoise, targetNoise, optSteps,
                 syncedParams, Fixed>>

Eval ==
  /\ training' = FALSE
  /\ lastCall' = [op |-> "eval"]
  /\ UNCHANGED <<onlineParams, targetParams, onlineNoise, targetNoise, optSteps,
                 syncedParams, Fixed>>

\* save(path, name): writes online_net.state_dict()
Save ==
  /\ lastCall' = [op |-> "save", saved |-> onlineParams]
  /\ UNCHANGED <<onlineParams, targetParams, onlineNoise, targetNoise, training,
                 optSteps, syncedParams, Fixed>>

Next ==
  \/ Learn
  \/ Act
  \/ ActEGreedy
  \/ EvaluateQ
  \/ ResetNoise
  \/ UpdateTargetNet
  \/ Train
  \/ Eval
  \/ Save

Spec == Init /\ [][Next]_vars

\* a step of learn that ran to its end: only learn moves the step count
LearnStep == optSteps' = optSteps + 1

Learnt == lastCall.op = "learn" /\ ~lastCall.e.raised

\* a is the first maximal index of the values q
FirstMaximal(q, a) ==
  /\ \A a2 \in Actions : RLe(q[a2], q[a])
  /\ \A a2 \in Actions : a2 < a => RLt(q[a2], q[a])

\* C5: double-Q selection: in every learn the bootstrap action of each row is
\* the first argmax of the ONLINE net's expected values on the next state,
\* and pns_a is the TARGET net's row for exactly that action; when the online
\* values rank action 0 above every other action, pns_a is the target's row
\* of action 0.
DoubleQSelection ==
  [][LearnStep =>
       \A b \in BatchIdx :
         \A ns \in {lastCall'.e.sample.next_states[b]} :
         \A q \in {ExpectedValues(cfg,
                      Forward(cfg, onlineParams, onlineNoise, training, ns))} :
         \A tg \in {Eager(Forward(cfg, targetParams, targetNoise', TRUE, ns))} :
         \A a \in {lastCall'.e.argmax_indices_ns[b]} :
           /\ FirstMaximal(q, a)
           /\ lastCall'.e.pns_a[b] = tg[a]
           /\ (\A a2 \in Actions \ {0} : RLt(q[a2], q[0])) =>
                lastCall'.e.pns_a[b] = tg[0]]_vars

\* a learn where the online values rank action 0 strictly first and the
\* target's rows of the two actions differ
DoubleQSelectionWitness ==
  /\ Learnt
  /\ \E b \in BatchIdx :
       /\ RLt(lastCall.e.dns_sum[b][1], lastCall.e.dns_sum[b][0])
       /\ lastCall.e.argmax_indices_ns[b] = 0
       /\ lastCall.e.pns[b][0] # lastCall.e.pns[b][1]
       /\ lastCall.e.pns_a[b] = lastCall.e.pns[b][0]

\* C6: the target parameters change only by synchronisation: they always
\* equal the online parameters as they were at the latest update_target_net
\* (or at construction), they equal the current online parameters right
\* after update_target_net, and learn leaves them as they were.
TargetOnlyBySync ==
  /\ targetParams = syncedParams
  /\ lastCall.op = "update_target_net" => targetParams = onlineParams
  /\ Learnt => targetParams = lastCall.e.target

\* learn has moved the online parameters away from the target's
TargetOnlyBySyncWitness ==
  /\ Learnt
  /\ onlineParams # targetParams
  /\ lastCall.e.online = onlineParams

Persistent == <<onlineParams, targetParams, onlineNoise, targetNoise, training,
                optSteps, syncedParams, cfg>>

\* C7: act and evaluate_q change no persistent state; the action act returns
\* is the first argmax of the per-action expected values, whose maximum is
\* what evaluate_q returns; act called again on the same state returns the
\* same action.
InferencePure ==
  [][/\ lastCall'.op \in {"act", "evaluate_q"} =>
          /\ UNCHANGED Persistent
          /\ \A q \in {ExpectedValues(cfg,
                          Forward(cfg, onlineParams', onlineNoise', training',
                                  lastCall'.state))} :
               /\ lastCall'.op = "act" => FirstMaximal(q, lastCall'.result)
               /\ lastCall'.op = "evaluate_q" =>
                    \E a \in Actions :
                      FirstMaximal(q, a) /\ lastCall'.result = q[a]
     /\ (lastCall.op = "act" /\ lastCall'.op = "act"
           /\ lastCall'.state = lastCall.state) =>
          lastCall'.result = lastCall.result]_vars

\* act has answered on a state where both actions have the same value
InferencePureWitness ==
  /\ lastCall.op = "act"
  /\ LET q == ExpectedValues(cfg,
                Forward(cfg, onlineParams, onlineNoise, training, lastCall.state))
     IN  q[0] = q[1] /\ lastCall.result = 0
  /\ optSteps > 0

\* the calls of one learn, in program order
LearnOrder ==
  <<"sample", "online_forward", "online_forward_next", "target_reset_noise",
    "target_forward", "project", "loss", "zero_grad", "backward", "clip_grad_norm",
    "optimiser_step", "update_priorities">>

\* C9: every learn makes its calls in the order sample, online forward,
\* online forward on the next states with selection, target noise resample,
\* target forward, projection, loss, zero_grad, backward, clip, optimiser
\* step, update_priorities, each once: the target forward reads the fresh
\* noise, the step applies the clipped gradient, update_priorities is called
\* once with the sampled indices; the online noise and the target parameters
\* are left alone.
LearnOrdering ==
  [][LearnStep =>
       \A e \in {lastCall'.e} :
         /\ e.events = LearnOrder
         /\ \A b \in BatchIdx :
              e.pns_a[b] = Forward(cfg, targetParams, targetNoise', TRUE,
                                   e.sample.next_states[b])[e.argmax_indices_ns[b]]
         /\ e.stepped_with = "clipped"
         /\ Len(e.priorities) = 1
         /\ e.priorities[1].idxs = e.sample.idxs
         /\ e.priorities[1].loss = e.loss
         /\ onlineNoise' = onlineNoise
         /\ targetParams' = targetParams
         /\ syncedParams' = syncedParams]_vars

\* a learn that drew fresh target noise and moved the online parameters
LearnOrderingWitness ==
  /\ Learnt
  /\ Len(lastCall.e.priorities) = 1
  /\ targetNoise # onlineNoise
  /\ onlineParams # targetParams

(***************************************************************************)
(* SpecLoad: the constructor (lines 26-56) on every checkpoint input.  A   *)
(* state dict is a function from parameter names to tensors; a tensor is   *)
(* named by the key the file stores it under.  Only the convolution keys   *)
(* are modelled; the keys of the other layers are the same in old and new  *)
(* checkpoints.                                                            *)
(***************************************************************************)
\* the (old_key, new_key) pairs of lines 35-37, in the order of the loop
KeyPairs ==
  <<<<"conv1.weight", "convs.0.weight">>, <<"conv1.bias", "convs.0.bias">>,
    <<"conv2.weight", "convs.2.weight">>, <<"conv2.bias", "convs.2.bias">>,
    <<"conv3.weight", "convs.4.weight">>, <<"conv3.bias", "convs.4.bias">>>>

LegacyKeys == {KeyPairs[i][1] : i \in DOMAIN KeyPairs}
NewKeys == {KeyPairs[i][2] : i \in DOMAIN KeyPairs}

\* args.model unset, a path that is no file, or a file holding a state dict
FileInputs ==
  {[kind |-> "none"], [kind |-> "missing"]}
  \cup {[kind |-> "dict", dict |-> [k \in D |-> k]] : D \in SUBSET (LegacyKeys \cup NewKeys)}

\* d with key k dropped: del state_dict[k]
Without(d, k) == [x \in DOMAIN d \ {k} |-> d[x]]

\* d with key k bound to v: state_dict[k] = v
With(d, k, v) == [x \in DOMAIN d \cup {k} |-> IF x = k THEN v ELSE d[x]]

RECURSIVE RemapKeepingOld(_, _)
RemapKeepingOld(d, i) ==
  IF i > Len(KeyPairs) THEN [error |-> None, dict |-> d]
  ELSE IF KeyPairs[i][1] \notin DOMAIN d THEN [error |-> "KeyError", dict |-> d]
  ELSE RemapKeepingOld(With(d, KeyPairs[i][2], d[KeyPairs[i][1]]), i + 1)

RECURSIVE RemapLoop(_, _)
\* lines 35-39 from pair i on: reading a missing old key raises KeyError
RemapLoop(d, i) ==
  IF i > Len(KeyPairs) THEN [error |-> None, dict |-> d]
  ELSE IF KeyPairs[i][1] \notin DOMAIN d THEN [error |-> "KeyError", dict |-> d]
  ELSE RemapLoop(Without(With(d, KeyPairs[i][2], d[KeyPairs[i][1]]), KeyPairs[i][1]),
                 i + 1)

\* lines 34-39
Remap(d) ==
  IF "conv1.weight" \in DOMAIN d THEN RemapLoop(d, 1) ELSE [error |-> None, dict |-> d]

\* self.online_net.load_state_dict(state_dict): the strict load accepts
\* exactly the keys of the net
LoadStateDict(d) == IF DOMAIN d = NewKeys THEN "ok" ELSE "RuntimeError"

\* lines 28-43: how the load ends and what was handed to online_net
LoadPretrained(f) ==
  IF f.kind = "none" THEN [status |-> "ok", handed |-> None]
  ELSE IF f.kind = "missing" THEN [status |-> "FileNotFoundError", handed |-> None]
  ELSE LET r == Remap(f.dict)
       IN  IF r.error # None THEN [status |-> r.error, handed |-> None]
           ELSE [status |-> LoadStateDict(r.dict), handed |-> r.dict]

InitLoad ==
  /\ file \in FileInputs
  /\ ctor = Unbuilt
  /\ cfg \in AgentConfigs
  /\ onlineParams = 0 /\ targetParams = 0 /\ syncedParams = 0
  /\ onlineNoise = 0 /\ targetNoise = 0
  /\ training = FALSE /\ optSteps = 0
  /\ lastCall = NoCall /\ batch = None

\* __init__: an exception of the load leaves no agent; otherwise lines 45-56
\* put online_net in train mode and copy it into target_net
Construct ==
  /\ ctor = Unbuilt
  /\ \E r \in {LoadPretrained(file)} :
       /\ ctor' = r
       /\ IF r.status = "ok"
          THEN /\ \E params \in Params, noise \in Noise :
                    /\ onlineParams' = params
                    /\ targetParams' = params
                    /\ syncedParams' = params
                    /\ onlineNoise' = noise
               /\ \E noise \in Noise : targetNoise' = noise
               /\ training' = TRUE
          ELSE UNCHANGED <<onlineParams, targetParams, syncedParams, onlineNoise,
                           targetNoise, training>>
  /\ lastCall' = [op |-> "__init__"]
  /\ UNCHANGED <<cfg, optSteps, batch, file>>

NextLoad == Construct

SpecLoad == InitLoad /\ [][NextLoad]_vars

Loaded == file.kind = "dict" /\ ctor # Unbuilt

====
